---------------------------- MODULE Spec2Model ----------------------------
(***************************************************************************)
(* A model of package gh (github.com/abiiranathan/gh).                     *)
(*                                                                         *)
(* QueryBuilder (query_builder.go) is modelled as the record               *)
(* [query, args, argsNil]; each method is an operator from the builder's   *)
(* state (and the method's parameters) to the state after the call.  A Go  *)
(* slice is the sequence of its elements; argsNil tells the nil slice from *)
(* the empty one.                                                          *)
(*                                                                         *)
(* Go strings are TLA+ strings, concatenated with \o.  A Go interface{}    *)
(* value is the pair of its dynamic type and its value, the value written  *)
(* in its printed form: two interface values are equal exactly when both   *)
(* components are.                                                         *)
(***************************************************************************)
EXTENDS Integers, Sequences, FiniteSets, TLC

VARIABLES
    baseQuery,  \* the argument NewQueryBuilder was called with
    qb,         \* the QueryBuilder: [query |-> string, args |-> sequence of values]
    calls,      \* the method calls made on qb so far, oldest first
    ret,        \* what the last Build returned, <<query, args>>; <<>> before any Build
    retNil,     \* whether the argument slice the last Build returned is nil
    pg,         \* PgConfig.ParseDSN: the call in progress and its receiver
    gdb,        \* the gormDB wrapper and the ORM handle it wraps
    pager       \* GetPaginated: the call in progress and its response

vars == <<baseQuery, qb, calls, ret, retNil, pg, gdb, pager>>

\* The value of the variable of a component that a specification leaves out.
NotInUse == <<>>

---------------------------------------------------------------------------
(* Bounds *)

\* The number of method calls made on one builder in Spec.
MaxCalls == 4

---------------------------------------------------------------------------
(* interface{} values *)

Str(s) == [type |-> "string", val |-> s]
IntZero == [type |-> "int", val |-> "0"]
BoolFalse == [type |-> "bool", val |-> "false"]
Nil == [type |-> "nil", val |-> ""]

\* The constant "" of `value != ""`, converted to interface{}.
EmptyString == Str("")

---------------------------------------------------------------------------
(* Inputs *)

BaseQueries == {"SELECT a FROM t", ""}

\* The second fragment has no placeholder.
Conditions == {"x=?", "deleted"}

Values == {EmptyString, Str("5"), IntZero, BoolFalse, Nil}

ColumnLists == {<<>>, <<"a">>, <<"a DESC", "b">>}

---------------------------------------------------------------------------
(* Occurrences of a keyword in a string *)

Occurrences(s, pat) ==
    Cardinality({i \in 1..(Len(s) - Len(pat) + 1) :
                    SubSeq(s, i, i + Len(pat) - 1) = pat})

---------------------------------------------------------------------------
(* strings.Join *)

\* Mutant: the separator loses its space.
RECURSIVE JoinComma(_, _)
JoinComma(elems, sep) ==
    IF Len(elems) = 0 THEN ""
    ELSE IF Len(elems) = 1 THEN elems[1]
    ELSE elems[1] \o "," \o JoinComma(Tail(elems), sep)

RECURSIVE Join(_, _)
Join(elems, sep) ==
    IF Len(elems) = 0 THEN ""
    ELSE IF Len(elems) = 1 THEN elems[1]
    ELSE elems[1] \o sep \o Join(Tail(elems), sep)

---------------------------------------------------------------------------
(* QueryBuilder *)

\* Mutant: the args field is left at its zero value, the nil slice.
NewQueryBuilderNilArgs(base) == [query |-> base, args |-> <<>>, argsNil |-> TRUE]

NewQueryBuilder(base) == [query |-> base, args |-> <<>>, argsNil |-> FALSE]

\* Mutant: a fragment without a placeholder is refused with an error.
WhereValidates(b, condition, value) ==
    IF value # EmptyString
    THEN IF Occurrences(condition, "?") = 0
         THEN [query |-> b.query, args |-> b.args, argsNil |-> b.argsNil,
               error |-> "condition has no placeholder"]
         ELSE [query |-> IF Len(b.args) > 0
                         THEN b.query \o " AND " \o condition
                         ELSE b.query \o " WHERE " \o condition,
               args  |-> Append(b.args, value),
               argsNil |-> FALSE]
    ELSE b

\* Mutant: " AND " only from the third accepted condition on.
WhereOffByOne(b, condition, value) ==
    IF value # EmptyString
    THEN [query |-> IF Len(b.args) > 1
                    THEN b.query \o " AND " \o condition
                    ELSE b.query \o " WHERE " \o condition,
          args  |-> Append(b.args, value),
          argsNil |-> FALSE]
    ELSE b

\* Mutant: the value is put in front of the arguments.
WherePrepends(b, condition, value) ==
    IF value # EmptyString
    THEN [query |-> IF Len(b.args) > 0
                    THEN b.query \o " AND " \o condition
                    ELSE b.query \o " WHERE " \o condition,
          args  |-> <<value>> \o b.args,
          argsNil |-> FALSE]
    ELSE b

\* Mutant: the test for the empty string is missing.
WhereNoSkip(b, condition, value) ==
    [query |-> IF Len(b.args) > 0
               THEN b.query \o " AND " \o condition
               ELSE b.query \o " WHERE " \o condition,
     args  |-> Append(b.args, value),
          argsNil |-> FALSE]

\* Mutant: the arguments are assigned, not appended to.
WhereAssignsArgs(b, condition, value) ==
    IF value # EmptyString
    THEN [query |-> IF Len(b.args) > 0
                    THEN b.query \o " AND " \o condition
                    ELSE b.query \o " WHERE " \o condition,
          args  |-> <<value>>,
          argsNil |-> FALSE]
    ELSE b

\* Mutant: every zero value is skipped, not only the empty string.
WhereSkipsZeroValues(b, condition, value) ==
    IF value \notin {EmptyString, IntZero, BoolFalse, Nil}
    THEN [query |-> IF Len(b.args) > 0
                    THEN b.query \o " AND " \o condition
                    ELSE b.query \o " WHERE " \o condition,
          args  |-> Append(b.args, value),
          argsNil |-> FALSE]
    ELSE b

Where(b, condition, value) ==
    IF value # EmptyString
    THEN [query |-> IF Len(b.args) > 0
                    THEN b.query \o " AND " \o condition
                    ELSE b.query \o " WHERE " \o condition,
          args  |-> Append(b.args, value),
          argsNil |-> FALSE]
    ELSE b

\* Mutant: the test for an empty column list is missing.
GroupByNoGuard(b, columns) ==
    [b EXCEPT !.query = @ \o " GROUP BY " \o Join(columns, ", ")]

\* Mutant: a builder that has a GROUP BY clause takes no second one.
GroupByOnce(b, columns) ==
    IF Len(columns) > 0 /\ Occurrences(b.query, " GROUP BY ") = 0
    THEN [b EXCEPT !.query = @ \o " GROUP BY " \o Join(columns, ", ")]
    ELSE b

GroupBy(b, columns) ==
    IF Len(columns) > 0
    THEN [b EXCEPT !.query = @ \o " GROUP BY " \o Join(columns, ", ")]
    ELSE b

\* Mutant: the keyword of GroupBy was left in.
OrderByWrongKeyword(b, columns) ==
    IF Len(columns) > 0
    THEN [b EXCEPT !.query = @ \o " GROUP BY " \o Join(columns, ", ")]
    ELSE b

OrderBy(b, columns) ==
    IF Len(columns) > 0
    THEN [b EXCEPT !.query = @ \o " ORDER BY " \o Join(columns, ", ")]
    ELSE b

\* Build has a pointer receiver like the other methods: qb is the builder
\* after the call, ret the returned pair.
\* Mutant: Build hands the arguments over and leaves the builder without.
BuildResets(b) ==
    [qb |-> [b EXCEPT !.args = <<>>], ret |-> <<b.query, b.args>>,
     retNil |-> b.argsNil]

Build(b) == [qb |-> b, ret |-> <<b.query, b.args>>, retNil |-> b.argsNil]

---------------------------------------------------------------------------
(* Calls *)

WhereCall(condition, value) ==
    [op |-> "Where", condition |-> condition, value |-> value, columns |-> <<>>]
GroupByCall(columns) ==
    [op |-> "GroupBy", condition |-> "", value |-> Nil, columns |-> columns]
OrderByCall(columns) ==
    [op |-> "OrderBy", condition |-> "", value |-> Nil, columns |-> columns]
BuildCall ==
    [op |-> "Build", condition |-> "", value |-> Nil, columns |-> <<>>]

Init ==
    /\ baseQuery \in BaseQueries
    /\ qb = NewQueryBuilder(baseQuery)
    /\ calls = <<>>
    /\ ret = <<>>
    /\ retNil = FALSE
    /\ pg = NotInUse /\ gdb = NotInUse /\ pager = NotInUse

DoWhere ==
    /\ Len(calls) < MaxCalls
    /\ \E condition \in Conditions, value \in Values :
          /\ qb' = Where(qb, condition, value)
          /\ calls' = Append(calls, WhereCall(condition, value))
    /\ UNCHANGED <<baseQuery, ret, retNil, pg, gdb, pager>>

DoGroupBy ==
    /\ Len(calls) < MaxCalls
    /\ \E columns \in ColumnLists :
          /\ qb' = GroupBy(qb, columns)
          /\ calls' = Append(calls, GroupByCall(columns))
    /\ UNCHANGED <<baseQuery, ret, retNil, pg, gdb, pager>>

DoOrderBy ==
    /\ Len(calls) < MaxCalls
    /\ \E columns \in ColumnLists :
          /\ qb' = OrderBy(qb, columns)
          /\ calls' = Append(calls, OrderByCall(columns))
    /\ UNCHANGED <<baseQuery, ret, retNil, pg, gdb, pager>>

DoBuild ==
    /\ Len(calls) < MaxCalls
    /\ qb' = Build(qb).qb
    /\ ret' = Build(qb).ret
    /\ retNil' = Build(qb).retNil
    /\ calls' = Append(calls, BuildCall)
    /\ UNCHANGED <<baseQuery, pg, gdb, pager>>

Next == DoWhere \/ DoGroupBy \/ DoOrderBy \/ DoBuild

Spec == Init /\ [][Next]_vars

---------------------------------------------------------------------------
(* Reading the history of calls *)

LastCall == calls[Len(calls)]

\* This step made exactly one more call on the builder.
Called == Len(calls') = Len(calls) + 1 /\ SubSeq(calls', 1, Len(calls)) = calls

\* The call this step made.
ThisCall == calls'[Len(calls')]

Accepted(c) == c.op = "Where" /\ c.value # EmptyString

\* The Where calls of a history whose value is not the empty string.
AcceptedCalls(h) == SelectSeq(h, Accepted)

IsPrefix(p, s) == Len(p) <= Len(s) /\ SubSeq(s, 1, Len(p)) = p

---------------------------------------------------------------------------
(* C1: a Where call whose value is not the empty string appends           *)
(* " WHERE " + condition when no earlier Where call of the history had a   *)
(* value other than the empty string, and " AND " + condition otherwise,   *)
(* however many empty-string Where calls came before it; it also appends   *)
(* its value to the arguments.                                             *)
C1_WhereConnector ==
    [][(Called /\ Accepted(ThisCall)) =>
          /\ qb'.query = qb.query
                           \o (IF Len(AcceptedCalls(calls)) = 0
                               THEN " WHERE " ELSE " AND ")
                           \o ThisCall.condition
          /\ qb'.args = Append(qb.args, ThisCall.value)]_vars

\* An accepted Where that follows an accepted Where with a skipped Where
\* in between has appended " AND ".
C1_Witness ==
    /\ Len(calls) >= 3
    /\ Accepted(calls[1])
    /\ calls[2].op = "Where" /\ calls[2].value = EmptyString
    /\ Accepted(calls[3])
    /\ qb.query = baseQuery \o " WHERE " \o calls[1].condition
                            \o " AND " \o calls[3].condition

---------------------------------------------------------------------------
(* C2: the arguments Build returns are the values of the accepted Where    *)
(* calls in call order, and the query holds the fragments of those calls   *)
(* in the same order: the i-th accepted call's fragment follows " WHERE "  *)
(* (i = 1) or " AND " (i > 1), with the GROUP BY / ORDER BY clauses of the *)
(* history in between where they were made.                                *)

\* The text a call of the history adds, given how many accepted Where
\* calls came before it.
ClauseText(c, nBefore) ==
    CASE c.op = "Where" ->
            IF c.value = EmptyString THEN ""
            ELSE (IF nBefore = 0 THEN " WHERE " ELSE " AND ") \o c.condition
      [] c.op = "GroupBy" ->
            IF c.columns = <<>> THEN ""
            ELSE " GROUP BY " \o Join(c.columns, ", ")
      [] c.op = "OrderBy" ->
            IF c.columns = <<>> THEN ""
            ELSE " ORDER BY " \o Join(c.columns, ", ")
      [] OTHER -> ""

RECURSIVE QueryOf(_, _)
QueryOf(base, h) ==
    IF h = <<>> THEN base
    ELSE LET front == SubSeq(h, 1, Len(h) - 1)
         IN  QueryOf(base, front)
               \o ClauseText(h[Len(h)], Len(AcceptedCalls(front)))

ValuesOf(h) == [i \in 1..Len(AcceptedCalls(h)) |-> AcceptedCalls(h)[i].value]

C2_ArgsMatchFragments ==
    /\ qb.args = ValuesOf(calls)
    /\ qb.query = QueryOf(baseQuery, calls)
    /\ (calls # <<>> /\ LastCall.op = "Build") =>
          ret = <<QueryOf(baseQuery, calls), ValuesOf(calls)>>

\* Build returned two arguments of two accepted Where calls with different
\* fragments and different values.
C2_Witness ==
    /\ calls # <<>> /\ LastCall.op = "Build"
    /\ Len(ret[2]) = 2
    /\ ret[2][1] # ret[2][2]
    /\ AcceptedCalls(calls)[1].condition # AcceptedCalls(calls)[2].condition

---------------------------------------------------------------------------
(* C3: Where(P, "") leaves the query and the arguments unchanged.          *)
C3_EmptyValueSkipped ==
    [][(Called /\ ThisCall.op = "Where" /\ ThisCall.value = EmptyString) =>
          (qb'.query = qb.query /\ qb'.args = qb.args)]_vars

\* Where(P, "") was called on a builder that already had a WHERE clause
\* and on one that had none.
C3_Witness ==
    /\ Len(calls) >= 3
    /\ calls[1].op = "Where" /\ calls[1].value = EmptyString
    /\ Accepted(calls[2])
    /\ calls[3].op = "Where" /\ calls[3].value = EmptyString
    /\ qb.query = baseQuery \o " WHERE " \o calls[2].condition
    /\ Len(qb.args) = 1

---------------------------------------------------------------------------
(* TestQueryBuilder (query_builder_test.go): the fixed program              *)
(*   qb.Where("doctor=?", tt.doctor); qb.Where("billable_type=?",           *)
(*   tt.category); qb.Where("DATE_PART('year', date)=?", tt.period);        *)
(*   qb.GroupBy(tt.groupByColumns...); qb.OrderBy(tt.orderByColumns...);    *)
(*   qb.Build()                                                             *)
(* run on inputs drawn from the test table and a few more.  The position   *)
(* in the program is the number of calls made.                             *)

TestBaseQuery ==
    "SELECT DATE_TRUNC('year', date) as date, billable_type, doctor, SUM(total_amount) AS total_amount FROM income_per_billable"

TestBaseQueries == {TestBaseQuery, "SELECT a FROM t"}

TestConditions == <<"doctor=?", "billable_type=?", "DATE_PART('year', date)=?">>

\* tt.doctor, tt.category, tt.period: Go strings, passed as interface{}.
TestValues ==
    << {Str(""), Str("Dr. Smith")},
       {Str(""), Str("Consultation"), Str("0")},
       {Str(""), Str("2023")} >>

TestGroupByColumns ==
    {<<"DATE_TRUNC('year', date)", "billable_type", "doctor">>, <<"a">>}

TestOrderByColumns ==
    {<<"total_amount DESC", "DATE_TRUNC('year', date)", "billable_type">>,
     <<"a DESC">>}

TestInit ==
    /\ baseQuery \in TestBaseQueries
    /\ qb = NewQueryBuilder(baseQuery)
    /\ calls = <<>>
    /\ ret = <<>>
    /\ retNil = FALSE
    /\ pg = NotInUse /\ gdb = NotInUse /\ pager = NotInUse

TestWhere ==
    /\ Len(calls) < 3
    /\ LET k == Len(calls) + 1 IN
       \E value \in TestValues[k] :
          /\ qb' = Where(qb, TestConditions[k], value)
          /\ calls' = Append(calls, WhereCall(TestConditions[k], value))
    /\ UNCHANGED <<baseQuery, ret, retNil, pg, gdb, pager>>

TestGroupBy ==
    /\ Len(calls) = 3
    /\ \E columns \in TestGroupByColumns :
          /\ qb' = GroupBy(qb, columns)
          /\ calls' = Append(calls, GroupByCall(columns))
    /\ UNCHANGED <<baseQuery, ret, retNil, pg, gdb, pager>>

TestOrderBy ==
    /\ Len(calls) = 4
    /\ \E columns \in TestOrderByColumns :
          /\ qb' = OrderBy(qb, columns)
          /\ calls' = Append(calls, OrderByCall(columns))
    /\ UNCHANGED <<baseQuery, ret, retNil, pg, gdb, pager>>

TestBuild ==
    /\ Len(calls) = 5
    /\ qb' = Build(qb).qb
    /\ ret' = Build(qb).ret
    /\ retNil' = Build(qb).retNil
    /\ calls' = Append(calls, BuildCall)
    /\ UNCHANGED <<baseQuery, pg, gdb, pager>>

TestNext == TestWhere \/ TestGroupBy \/ TestOrderBy \/ TestBuild

TestSpec == TestInit /\ [][TestNext]_vars

---------------------------------------------------------------------------
(* C4: after the three Where calls, GroupBy and OrderBy of the test, Build *)
(* returns the base query, then " WHERE " and the conditions of the        *)
(* non-empty values joined by " AND " (nothing when all are empty), then   *)
(* " GROUP BY " and " ORDER BY " with their columns joined by ", "; the    *)
(* arguments are the non-empty values in call order.  The four rows of the *)
(* test table give their literal expected strings.                         *)

\* c1, c2, ... cn written out with the separator, for the lists of the test.
Joined(l, sep) ==
    CASE Len(l) = 1 -> l[1]
      [] Len(l) = 2 -> l[1] \o sep \o l[2]
      [] Len(l) = 3 -> l[1] \o sep \o l[2] \o sep \o l[3]

TestExpectedQuery ==
    LET kept  == {k \in 1..3 : calls[k].value # Str("")}
        conds == [i \in 1..Cardinality(kept) |->
                    TestConditions[CHOOSE k \in kept :
                                     Cardinality({j \in kept : j < k}) = i - 1]]
    IN  baseQuery
          \o (IF kept = {} THEN "" ELSE " WHERE " \o Joined(conds, " AND "))
          \o " GROUP BY " \o Joined(calls[4].columns, ", ")
          \o " ORDER BY " \o Joined(calls[5].columns, ", ")

TestExpectedArgs ==
    LET kept == {k \in 1..3 : calls[k].value # Str("")}
    IN  [i \in 1..Cardinality(kept) |->
            calls[CHOOSE k \in kept : Cardinality({j \in kept : j < k}) = i - 1].value]

TestTail ==
    " GROUP BY DATE_TRUNC('year', date), billable_type, doctor ORDER BY total_amount DESC, DATE_TRUNC('year', date), billable_type"

\* A row of the test table: the values of doctor, category and period with
\* the table's base query and column lists.
TestRow(doctor, category, period) ==
    /\ baseQuery = TestBaseQuery
    /\ calls[1].value = Str(doctor)
    /\ calls[2].value = Str(category)
    /\ calls[3].value = Str(period)
    /\ calls[4].columns = <<"DATE_TRUNC('year', date)", "billable_type", "doctor">>
    /\ calls[5].columns = <<"total_amount DESC", "DATE_TRUNC('year', date)", "billable_type">>

C4_TestQueryBuilder ==
    Len(calls) = 6 =>
      /\ ret = <<TestExpectedQuery, TestExpectedArgs>>
      /\ TestRow("", "", "") =>
            ret = <<TestBaseQuery \o TestTail, <<>> >>
      /\ TestRow("Dr. Smith", "", "") =>
            ret = <<TestBaseQuery \o " WHERE doctor=?" \o TestTail,
                    <<Str("Dr. Smith")>> >>
      /\ TestRow("Dr. Smith", "Consultation", "") =>
            ret = <<TestBaseQuery \o " WHERE doctor=? AND billable_type=?" \o TestTail,
                    <<Str("Dr. Smith"), Str("Consultation")>> >>
      /\ TestRow("Dr. Smith", "Consultation", "2023") =>
            ret = <<TestBaseQuery
                      \o " WHERE doctor=? AND billable_type=? AND DATE_PART('year', date)=?"
                      \o TestTail,
                    <<Str("Dr. Smith"), Str("Consultation"), Str("2023")>> >>

\* The test has run to its Build with the first value empty and the other
\* two not: the WHERE clause starts at the second condition.
C4_Witness ==
    /\ Len(calls) = 6
    /\ calls[1].value = Str("")
    /\ calls[2].value = Str("Consultation")
    /\ calls[3].value = Str("2023")
    /\ baseQuery = TestBaseQuery
    /\ ret[1] = TestBaseQuery
                  \o " WHERE billable_type=? AND DATE_PART('year', date)=?"
                  \o " GROUP BY a ORDER BY a DESC"
    /\ ret[2] = <<Str("Consultation"), Str("2023")>>

---------------------------------------------------------------------------
(* C5: GroupBy with no columns leaves the builder unchanged; GroupBy with  *)
(* n >= 1 columns appends " GROUP BY " and the columns joined by ", " in   *)
(* the order given, which adds exactly one occurrence of " GROUP BY " to   *)
(* the query, and leaves the arguments unchanged.                          *)
C5_GroupBy ==
    [][(Called /\ ThisCall.op = "GroupBy") =>
          IF ThisCall.columns = <<>>
          THEN qb' = qb
          ELSE /\ qb'.query = qb.query \o " GROUP BY "
                                \o Joined(ThisCall.columns, ", ")
               /\ Occurrences(qb'.query, " GROUP BY ")
                    = Occurrences(qb.query, " GROUP BY ") + 1
               /\ qb'.args = qb.args]_vars

\* GroupBy with two columns was called after an accepted Where, and
\* GroupBy with no columns after that.
C5_Witness ==
    /\ Len(calls) >= 3
    /\ Accepted(calls[1])
    /\ calls[2].op = "GroupBy" /\ Len(calls[2].columns) = 2
    /\ calls[3].op = "GroupBy" /\ calls[3].columns = <<>>
    /\ qb.query = baseQuery \o " WHERE " \o calls[1].condition
                    \o " GROUP BY a DESC, b"
    /\ Len(qb.args) = 1

---------------------------------------------------------------------------
(* C6: OrderBy with no columns leaves the builder unchanged; OrderBy with  *)
(* n >= 1 columns appends " ORDER BY " and the columns joined by ", " in   *)
(* the order given, which adds exactly one occurrence of " ORDER BY " to   *)
(* the query, and leaves the arguments unchanged.                          *)
C6_OrderBy ==
    [][(Called /\ ThisCall.op = "OrderBy") =>
          IF ThisCall.columns = <<>>
          THEN qb' = qb
          ELSE /\ qb'.query = qb.query \o " ORDER BY "
                                \o Joined(ThisCall.columns, ", ")
               /\ Occurrences(qb'.query, " ORDER BY ")
                    = Occurrences(qb.query, " ORDER BY ") + 1
               /\ qb'.args = qb.args]_vars

\* OrderBy with two columns was called after an accepted Where, and
\* OrderBy with no columns after that.
C6_Witness ==
    /\ Len(calls) >= 3
    /\ Accepted(calls[1])
    /\ calls[2].op = "OrderBy" /\ Len(calls[2].columns) = 2
    /\ calls[3].op = "OrderBy" /\ calls[3].columns = <<>>
    /\ qb.query = baseQuery \o " WHERE " \o calls[1].condition
                    \o " ORDER BY a DESC, b"
    /\ Len(qb.args) = 1

---------------------------------------------------------------------------
(* C7: Build leaves the query and the arguments as they were and returns   *)
(* them; a Build that directly follows a Build returns the same pair; and  *)
(* after a Build the builder still takes Where, GroupBy and OrderBy calls  *)
(* (as long as the bound on the number of calls allows one more).          *)
C7_BuildReadsOnly ==
    /\ [][(Called /\ ThisCall.op = "Build") =>
             /\ qb'.query = qb.query
             /\ qb'.args = qb.args
             /\ ret' = <<qb.query, qb.args>>
             /\ (calls # <<>> /\ LastCall.op = "Build") => ret' = ret]_vars
    /\ [][(Called /\ calls # <<>> /\ LastCall.op = "Build"
                  /\ ThisCall.op = "Where" /\ Accepted(ThisCall)) =>
             /\ IsPrefix(ret[1], qb'.query)
             /\ qb'.query # ret[1]
             /\ qb'.args = Append(ret[2], ThisCall.value)]_vars
    /\ []((calls # <<>> /\ LastCall.op = "Build" /\ Len(calls) < MaxCalls) =>
             (ENABLED DoWhere /\ ENABLED DoGroupBy /\ ENABLED DoOrderBy))

\* Two Builds in a row on a builder with a WHERE clause, then one more
\* accepted Where.
C7_Witness ==
    /\ Len(calls) >= 4
    /\ Accepted(calls[1])
    /\ calls[2].op = "Build"
    /\ calls[3].op = "Build"
    /\ Accepted(calls[4])
    /\ Len(qb.args) = 2

---------------------------------------------------------------------------
(* C8: the builder is append-only: in every step the query before is a     *)
(* prefix of the query after and the arguments before are a prefix of the  *)
(* arguments after; the base query is always a prefix of the query.        *)
C8_AppendOnly ==
    /\ IsPrefix(baseQuery, qb.query)
    /\ [][/\ IsPrefix(qb.query, qb'.query)
          /\ IsPrefix(qb.args, qb'.args)
          /\ IsPrefix(baseQuery, qb'.query)]_vars

\* The query has grown by a WHERE, a GROUP BY and an ORDER BY clause and a
\* Build has been made.
C8_Witness ==
    /\ Len(calls) = 4
    /\ Len(qb.args) = 1
    /\ Occurrences(qb.query, " WHERE ") = 1
    /\ Occurrences(qb.query, " GROUP BY ") = 1
    /\ Occurrences(qb.query, " ORDER BY ") = 1
    /\ ret # <<>>

---------------------------------------------------------------------------
(* C9: only the empty string is skipped by Where: a value of another       *)
(* dynamic type (the int 0, false, nil) is accepted; the call appends the  *)
(* connector, the condition and the value.                                 *)
C9_OnlyEmptyStringSkipped ==
    [][(Called /\ ThisCall.op = "Where" /\ ThisCall.value.type # "string") =>
          /\ qb'.query = qb.query
                           \o (IF qb.args = <<>> THEN " WHERE " ELSE " AND ")
                           \o ThisCall.condition
          /\ qb'.args = Append(qb.args, ThisCall.value)]_vars

\* 0, false and nil are the arguments of three Where calls.
C9_Witness ==
    /\ qb.args = <<IntZero, BoolFalse, Nil>>
    /\ Occurrences(qb.query, " WHERE ") = 1
    /\ Occurrences(qb.query, " AND ") = 2

---------------------------------------------------------------------------
(* C10: no call order or count is enforced: Where, GroupBy and OrderBy are *)
(* enabled in every state (as long as the bound on the number of calls     *)
(* allows one more); a GroupBy (OrderBy) with columns made after an        *)
(* earlier GroupBy (OrderBy) with columns appends one more full clause;    *)
(* an accepted Where made after a GroupBy or OrderBy with columns appends  *)
(* its clause at the end of the query, with " WHERE " when the arguments   *)
(* are empty and " AND " otherwise.                                        *)

\* A call of operation op with a non-empty column list is in the history.
HasClause(op) ==
    \E i \in 1..Len(calls) : calls[i].op = op /\ calls[i].columns # <<>>

IsSuffix(t, s) ==
    Len(t) <= Len(s) /\ SubSeq(s, Len(s) - Len(t) + 1, Len(s)) = t

C10_NoOrderEnforced ==
    /\ [](Len(calls) < MaxCalls =>
            (ENABLED DoWhere /\ ENABLED DoGroupBy /\ ENABLED DoOrderBy))
    /\ [][(Called /\ ThisCall.op \in {"GroupBy", "OrderBy"}
                  /\ ThisCall.columns # <<>> /\ HasClause(ThisCall.op)) =>
             LET kw == IF ThisCall.op = "GroupBy"
                       THEN " GROUP BY " ELSE " ORDER BY "
             IN  /\ qb'.query = qb.query \o kw \o Joined(ThisCall.columns, ", ")
                 /\ Occurrences(qb'.query, kw) >= 2]_vars
    /\ [][(Called /\ Accepted(ThisCall)
                  /\ (HasClause("GroupBy") \/ HasClause("OrderBy"))) =>
             /\ IsSuffix((IF qb.args = <<>> THEN " WHERE " ELSE " AND ")
                            \o ThisCall.condition, qb'.query)
             /\ Len(qb'.query) = Len(qb.query) + Len(ThisCall.condition)
                                   + (IF qb.args = <<>> THEN 7 ELSE 5)]_vars

\* OrderBy, then GroupBy twice, then an accepted Where: the query ends in
\* the WHERE clause, after two GROUP BY clauses.
C10_Witness ==
    /\ Len(calls) = 4
    /\ calls[1].op = "OrderBy" /\ calls[1].columns # <<>>
    /\ calls[2].op = "GroupBy" /\ calls[2].columns # <<>>
    /\ calls[3].op = "GroupBy" /\ calls[3].columns # <<>>
    /\ Accepted(calls[4])
    /\ Occurrences(qb.query, " GROUP BY ") = 2
    /\ IsSuffix(" WHERE " \o calls[4].condition, qb.query)

---------------------------------------------------------------------------
(* C11: every operation of the builder is total: in every reachable state  *)
(* and for every input (a fragment without a placeholder and the empty     *)
(* base query included) NewQueryBuilder, Where, GroupBy, OrderBy and Build *)
(* yield a builder, never an error outcome; the builder they yield is the  *)
(* one they were called on, unchanged or with text appended; and every     *)
(* one of them can be called.  The calls are tried in every state in which *)
(* the bound on the number of calls allows one more.                       *)

\* A QueryBuilder value, as opposed to an error outcome.
IsBuilder(b) ==
    /\ DOMAIN b = {"query", "args", "argsNil"}
    /\ DOMAIN b.args = 1..Len(b.args)
    /\ b.argsNil \in BOOLEAN

\* b2 is b, or b with text appended to the query (and perhaps an argument).
SameOrAppended(b, b2) ==
    \/ b2 = b
    \/ /\ IsPrefix(b.query, b2.query)
       /\ Len(b2.query) > Len(b.query)
       /\ IsPrefix(b.args, b2.args)

\* The outcome of a call on builder b: a builder, b or b appended to.
TotalOn(b, outcome) == IsBuilder(outcome) /\ SameOrAppended(b, outcome)

C11_Total ==
    /\ IsBuilder(qb)
    /\ \A base \in BaseQueries : IsBuilder(NewQueryBuilder(base))
    /\ Len(calls) < MaxCalls =>
          /\ \A condition \in Conditions, value \in Values :
                TotalOn(qb, Where(qb, condition, value))
          /\ \A columns \in ColumnLists :
                /\ TotalOn(qb, GroupBy(qb, columns))
                /\ TotalOn(qb, OrderBy(qb, columns))
          /\ IsBuilder(Build(qb).qb)
          /\ Len(Build(qb).ret) = 2
          /\ ENABLED DoWhere /\ ENABLED DoGroupBy /\ ENABLED DoOrderBy
          /\ ENABLED DoBuild

\* A fragment without a placeholder was appended to the empty base query.
C11_Witness ==
    /\ baseQuery = ""
    /\ Len(calls) >= 2
    /\ calls[1] = WhereCall("deleted", Nil)
    /\ calls[2].op = "Build"
    /\ ret = <<" WHERE deleted", <<Nil>> >>

---------------------------------------------------------------------------
(* C12: Build on a builder fresh from NewQueryBuilder(Q), with no other    *)
(* call made, returns Q unchanged and an argument slice that is empty and  *)
(* not nil.                                                                *)
C12_FreshBuild ==
    (calls # <<>> /\ calls[1].op = "Build" /\ Len(calls) = 1) =>
        (ret = <<baseQuery, <<>> >> /\ ~retNil)

\* Build was the first call on a builder with a non-empty base query.
C12_Witness ==
    /\ calls = <<BuildCall>>
    /\ baseQuery = "SELECT a FROM t"
    /\ ret[1] = "SELECT a FROM t"

---------------------------------------------------------------------------
(* PgConfig.ParseDSN                                                       *)
(*                                                                         *)
(* pg is the record of one call config.ParseDSN(dsn): the position in the  *)
(* function (pc), the receiver (config) and what it was before the call    *)
(* (before), the locals (parts, i, keys, configMap) and the returned error *)
(* (err, "" for nil).  src is the list of tokens the DSN was written from; *)
(* resolves is the answer net.LookupIP gives for the DSN's host, should it *)
(* be asked.                                                               *)

\* The number of tokens of the DSNs written from Tokens.
MaxTokens == 2

\* var keys int8
Int8Min == -128
Int8Max == 127

Tokens ==
    {"dbname=test", "user=postgres", "password=secret", "host=127.0.0.1",
     "host=db.example", "port=5432", "port=0", "port=65536", "port=abc",
     "sslmode=disable", "TimeZone=Asia/Kolkata", "invalid_dsn", "a=b=c",
     "=", ""}

TokenLists == UNION {[1..n -> Tokens] : n \in 1..MaxTokens}

\* The DSNs of TestParseDSN that are not the empty one, as token lists.
TestDSNs ==
    {<<"dbname=test", "user=postgres", "password=postgres", "host=localhost",
       "port=5432", "sslmode=disable", "TimeZone=Asia/Kolkata">>,
     <<"dbname=test", "user=postgres", "password=postgres", "host=localhost",
       "TimeZone=Asia/Kolkata">>,
     <<"invalid_dsn">>,
     <<"dbname=test", "user=postgres">>}

\* How many key=value tokens the long DSNs have: around the ends of int8
\* and of its unsigned range.
LongCounts == {127, 128, 129, 255, 256, 257}

RepeatToken(tok, n) == [k \in 1..n |-> tok]

LongDSNs == {RepeatToken("a=b", n) : n \in LongCounts}

\* The text of a DSN: its tokens with one space between them.
RECURSIVE Spaced(_)
Spaced(toks) ==
    IF Len(toks) = 1 THEN toks[1]
    ELSE LET h == Len(toks) \div 2
         IN  Spaced(SubSeq(toks, 1, h)) \o " " \o Spaced(SubSeq(toks, h + 1, Len(toks)))

\* strings.Split(s, sep) for a separator of one character.
RECURSIVE Split(_, _)
Split(s, sep) ==
    IF Len(s) = 0 THEN <<"">>
    ELSE IF Len(s) = 1 THEN (IF s = sep THEN <<"", "">> ELSE <<s>>)
    ELSE LET m == Len(s) \div 2
             l == Split(SubSeq(s, 1, m), sep)
             r == Split(SubSeq(s, m + 1, Len(s)), sep)
         IN  SubSeq(l, 1, Len(l) - 1) \o <<l[Len(l)] \o r[1]>>
                \o SubSeq(r, 2, Len(r))

\* A Go map[string]string: reading a missing key gives "".
EmptyMap == [k \in {} |-> ""]
MapGet(m, k) == IF k \in DOMAIN m THEN m[k] ELSE ""
MapPut(m, k, v) == [x \in DOMAIN m \cup {k} |-> IF x = k THEN v ELSE m[x]]

Digits == <<"0", "1", "2", "3", "4", "5", "6", "7", "8", "9">>
IsDigit(c) == \E d \in 1..10 : Digits[d] = c
DigitValue(c) == (CHOOSE d \in 1..10 : Digits[d] = c) - 1

RECURSIVE DecimalValue(_)
DecimalValue(s) ==
    IF Len(s) = 0 THEN 0
    ELSE 10 * DecimalValue(SubSeq(s, 1, Len(s) - 1))
           + DigitValue(SubSeq(s, Len(s), Len(s)))

\* strconv.Atoi for strings of at most nine characters: an optional sign
\* and at least one digit, nothing else.
Atoi(s) ==
    LET signed == Len(s) > 0 /\ SubSeq(s, 1, 1) \in {"+", "-"}
        digits == IF signed THEN SubSeq(s, 2, Len(s)) ELSE s
    IN  IF Len(digits) > 0 /\ \A i \in 1..Len(digits) : IsDigit(SubSeq(digits, i, i))
        THEN [ok |-> TRUE,
              n  |-> IF signed /\ SubSeq(s, 1, 1) = "-"
                     THEN 0 - DecimalValue(digits) ELSE DecimalValue(digits)]
        ELSE [ok |-> FALSE, n |-> 0]

\* net.ParseIP(host) # nil, for the dotted-decimal IPv4 form: four fields
\* of one to three digits, each at most 255, with no leading zero.
ParseIP(host) ==
    LET f == Split(host, ".")
    IN  /\ Len(f) = 4
        /\ \A i \in 1..4 :
              /\ Len(f[i]) \in 1..3
              /\ \A j \in 1..Len(f[i]) : IsDigit(SubSeq(f[i], j, j))
              /\ (Len(f[i]) > 1 => SubSeq(f[i], 1, 1) # "0")
              /\ DecimalValue(f[i]) <= 255

\* keys++ on an int8.
IncrInt8(keys) == IF keys = Int8Max THEN Int8Min ELSE keys + 1

ZeroConfig ==
    [Database |-> "", User |-> "", Password |-> "", Host |-> "", Port |-> "",
     SSLMode |-> "", Timezone |-> ""]

\* A PgConfig that has been filled in before.
UsedConfig ==
    [Database |-> "old", User |-> "olduser", Password |-> "oldpw",
     Host |-> "10.0.0.1", Port |-> "6543", SSLMode |-> "require",
     Timezone |-> "UTC"]

\* The body of the loop over the tokens, for token s.
ScanToken(p, s) ==
    LET v == Split(s, "=")
    IN  IF Len(v) = 2
        THEN [p EXCEPT !.configMap = MapPut(@, v[1], v[2]),
                       !.keys = IncrInt8(@)]
        ELSE p

\* Mutant: the fields are assigned before the number of keys is looked at.
ApplyConfigAssignsFirst(config, configMap, keys, resolves) ==
    LET c1 == [config EXCEPT !.Database = MapGet(configMap, "dbname"),
                             !.User = MapGet(configMap, "user"),
                             !.Host = MapGet(configMap, "host"),
                             !.Password = MapGet(configMap, "password"),
                             !.Timezone = MapGet(configMap, "TimeZone")]
    IN  IF keys = 0 THEN [config |-> c1, err |-> "DSN is invalid"]
        ELSE [config |-> [c1 EXCEPT !.Host = "localhost", !.Port = "5432",
                                    !.SSLMode = "disabled"],
              err |-> ""]

\* Mutant: the port is stored without being checked.
ApplyConfigNoPortCheck(config, configMap, keys, resolves) ==
    IF keys = 0 THEN [config |-> config, err |-> "DSN is invalid"]
    ELSE
    LET c1 == [config EXCEPT !.Database = MapGet(configMap, "dbname"),
                             !.User = MapGet(configMap, "user"),
                             !.Host = MapGet(configMap, "host"),
                             !.Password = MapGet(configMap, "password"),
                             !.Timezone = MapGet(configMap, "TimeZone")]
        c2 == IF MapGet(configMap, "host") = ""
              THEN [c1 EXCEPT !.Host = "localhost"] ELSE c1
        c3 == IF MapGet(configMap, "port") # ""
              THEN [c2 EXCEPT !.Port = MapGet(configMap, "port")]
              ELSE [c2 EXCEPT !.Port = "5432"]
        c4 == IF MapGet(configMap, "sslmode") # ""
              THEN [c3 EXCEPT !.SSLMode = MapGet(configMap, "sslmode")]
              ELSE [c3 EXCEPT !.SSLMode = "disabled"]
    IN  IF MapGet(configMap, "host") # "" /\ ~ParseIP(c1.Host) /\ ~resolves
        THEN [config |-> c1, err |-> "invalid host"]
        ELSE [config |-> c4, err |-> ""]

\* ParseDSN after the loop.  resolves: whether net.LookupIP finds the host.
ApplyConfig(config, configMap, keys, resolves) ==
    IF keys = 0 THEN [config |-> config, err |-> "DSN is invalid"]
    ELSE
    LET c1 == [config EXCEPT !.Database = MapGet(configMap, "dbname"),
                             !.User = MapGet(configMap, "user"),
                             !.Host = MapGet(configMap, "host"),
                             !.Password = MapGet(configMap, "password"),
                             !.Timezone = MapGet(configMap, "TimeZone")]
        c2 == IF MapGet(configMap, "host") = ""
              THEN [c1 EXCEPT !.Host = "localhost"] ELSE c1
        c3 == IF MapGet(configMap, "port") # ""
              THEN [c2 EXCEPT !.Port = MapGet(configMap, "port")]
              ELSE [c2 EXCEPT !.Port = "5432"]
        portNum == Atoi(c3.Port)
        c4 == IF MapGet(configMap, "sslmode") # ""
              THEN [c3 EXCEPT !.SSLMode = MapGet(configMap, "sslmode")]
              ELSE [c3 EXCEPT !.SSLMode = "disabled"]
    IN  IF MapGet(configMap, "host") # "" /\ ~ParseIP(c1.Host) /\ ~resolves
        THEN [config |-> c1, err |-> "invalid host"]
        ELSE IF MapGet(configMap, "port") # ""
                  /\ (~portNum.ok \/ portNum.n < 1 \/ portNum.n > 65535)
        THEN [config |-> c3, err |-> "invalid port number"]
        ELSE [config |-> c4, err |-> ""]

PgCall(toks, dsn, config, resolves) ==
    [pc |-> "start", src |-> toks, dsn |-> dsn, config |-> config,
     before |-> config, resolves |-> resolves, parts |-> <<>>, i |-> 0,
     keys |-> 0, configMap |-> EmptyMap, err |-> ""]

DSNInit ==
    /\ \E config \in {ZeroConfig, UsedConfig}, resolves \in BOOLEAN :
          \/ pg = PgCall(<<>>, "", config, resolves)
          \/ \E toks \in TokenLists \cup TestDSNs \cup LongDSNs :
                pg = PgCall(toks, Spaced(toks), config, resolves)
    /\ baseQuery = NotInUse /\ qb = NotInUse /\ calls = NotInUse
    /\ ret = NotInUse /\ retNil = NotInUse /\ gdb = NotInUse
    /\ pager = NotInUse

\* if dsn == "" { return error }; the locals and strings.Split(dsn, " ").
ParseStart ==
    /\ pg.pc = "start"
    /\ pg' = IF pg.dsn = ""
             THEN [pg EXCEPT !.pc = "done", !.err = "DSN is empty"]
             ELSE [pg EXCEPT !.pc = "loop", !.parts = Split(pg.dsn, " "),
                             !.i = 1]
    /\ UNCHANGED <<baseQuery, qb, calls, ret, retNil, gdb, pager>>

\* One turn of the loop.
ParseToken ==
    /\ pg.pc = "loop"
    /\ pg.i <= Len(pg.parts)
    /\ pg' = [ScanToken(pg, pg.parts[pg.i]) EXCEPT !.i = @ + 1]
    /\ UNCHANGED <<baseQuery, qb, calls, ret, retNil, gdb, pager>>

\* The rest of the function, to its return.
ParseFinish ==
    /\ pg.pc = "loop"
    /\ pg.i > Len(pg.parts)
    /\ LET r == ApplyConfig(pg.config, pg.configMap, pg.keys, pg.resolves)
       IN  pg' = [pg EXCEPT !.pc = "done", !.config = r.config, !.err = r.err]
    /\ UNCHANGED <<baseQuery, qb, calls, ret, retNil, gdb, pager>>

DSNNext == ParseStart \/ ParseToken \/ ParseFinish

DSNSpec == DSNInit /\ [][DSNNext]_vars

---------------------------------------------------------------------------
(* Reading a DSN from the tokens it was written from *)

\* The token has the form key=value: exactly one "=".
KeyValue(tok) == Occurrences(tok, "=") = 1

HasKeyValue(toks) == \E i \in 1..Len(toks) : KeyValue(toks[i])

\* The token gives key k a value.
Gives(tok, k) ==
    KeyValue(tok) /\ Len(tok) > Len(k) /\ SubSeq(tok, 1, Len(k) + 1) = k \o "="

\* The value the DSN gives key k (its last token for k); "" when k is absent.
Given(toks, k) ==
    LET at == {i \in 1..Len(toks) : Gives(toks[i], k)}
    IN  IF at = {} THEN ""
        ELSE LET last == CHOOSE i \in at : \A j \in at : j <= i
             IN  SubSeq(toks[last], Len(k) + 2, Len(toks[last]))

ValidPort(s) == Atoi(s).ok /\ Atoi(s).n >= 1 /\ Atoi(s).n <= 65535

---------------------------------------------------------------------------
(* C13 as claimed: ParseDSN returns nil when the DSN has at least one      *)
(* key=value token, with Host "localhost", Port "5432" and SSLMode         *)
(* "disabled" when host, port and sslmode are absent, and Database, User,  *)
(* Password and Timezone the values of dbname, user, password and          *)
(* TimeZone, "" when absent.                                               *)

\* The fields ParseDSN leaves behind for the DSN written from toks.
Parsed(toks) ==
    [Database |-> Given(toks, "dbname"),
     User     |-> Given(toks, "user"),
     Password |-> Given(toks, "password"),
     Host     |-> IF Given(toks, "host") = "" THEN "localhost"
                  ELSE Given(toks, "host"),
     Port     |-> IF Given(toks, "port") = "" THEN "5432"
                  ELSE Given(toks, "port"),
     SSLMode  |-> IF Given(toks, "sslmode") = "" THEN "disabled"
                  ELSE Given(toks, "sslmode"),
     Timezone |-> Given(toks, "TimeZone")]

C13_NilWithAnyKeyValue ==
    (pg.pc = "done" /\ HasKeyValue(pg.src)) =>
        (pg.err = "" /\ pg.config = Parsed(pg.src))

(* C13 as amended: whenever ParseDSN returns nil, the DSN has at least one *)
(* key=value token and the fields are as claimed; ParseDSN returns an      *)
(* error when the port is given and is not a number from 1 to 65535, and   *)
(* when the host is given, is not an IP address and does not resolve.  The *)
(* rows of TestParseDSN that expect no error give their literal structs    *)
(* (localhost resolving).                                                  *)
C13_NilOnlyWhenValid ==
    pg.pc = "done" =>
      /\ pg.err = "" => (HasKeyValue(pg.src) /\ pg.config = Parsed(pg.src))
      /\ (Given(pg.src, "port") # "" /\ ~ValidPort(Given(pg.src, "port")))
            => pg.err # ""
      /\ (Given(pg.src, "host") # "" /\ ~ParseIP(Given(pg.src, "host"))
             /\ ~pg.resolves) => pg.err # ""
      /\ (pg.resolves /\ pg.before = ZeroConfig) =>
            /\ pg.dsn = "dbname=test user=postgres password=postgres host=localhost port=5432 sslmode=disable TimeZone=Asia/Kolkata"
                  => /\ pg.err = ""
                     /\ pg.config =
                          [Database |-> "test", User |-> "postgres",
                           Password |-> "postgres", Host |-> "localhost",
                           Port |-> "5432", SSLMode |-> "disable",
                           Timezone |-> "Asia/Kolkata"]
            /\ pg.dsn = "dbname=test user=postgres password=postgres host=localhost TimeZone=Asia/Kolkata"
                  => /\ pg.err = ""
                     /\ pg.config =
                          [Database |-> "test", User |-> "postgres",
                           Password |-> "postgres", Host |-> "localhost",
                           Port |-> "5432", SSLMode |-> "disabled",
                           Timezone |-> "Asia/Kolkata"]
            /\ pg.dsn = "dbname=test user=postgres"
                  => /\ pg.err = ""
                     /\ pg.config =
                          [Database |-> "test", User |-> "postgres",
                           Password |-> "", Host |-> "localhost",
                           Port |-> "5432", SSLMode |-> "disabled",
                           Timezone |-> ""]

\* ParseDSN returned nil on a used PgConfig for a DSN that gives the user
\* and nothing else: the other fields were reset to "" or their defaults.
C13_Witness ==
    /\ pg.pc = "done"
    /\ pg.dsn = "invalid_dsn user=postgres"
    /\ pg.before = UsedConfig
    /\ pg.err = ""
    /\ pg.config.User = "postgres"
    /\ pg.config.Database = ""
    /\ pg.config.Host = "localhost"
    /\ pg.config.Port = "5432"
    /\ pg.config.SSLMode = "disabled"

---------------------------------------------------------------------------
(* C14: ParseDSN returns an error for the empty DSN and for a DSN none of  *)
(* whose space-separated tokens has the form key=value, and then leaves    *)
(* every field of the PgConfig as it was.                                  *)
C14_ErrorLeavesConfig ==
    pg.pc = "done" =>
      /\ pg.dsn = "" => (pg.err = "DSN is empty" /\ pg.config = pg.before)
      /\ (pg.dsn # "" /\ ~HasKeyValue(pg.src)) =>
            (pg.err = "DSN is invalid" /\ pg.config = pg.before)

\* A DSN of two tokens, neither of the form key=value, was refused and the
\* used PgConfig kept its fields.
C14_Witness ==
    /\ pg.pc = "done"
    /\ pg.dsn = "invalid_dsn a=b=c"
    /\ pg.before = UsedConfig
    /\ pg.err = "DSN is invalid"
    /\ pg.config = UsedConfig

---------------------------------------------------------------------------
(* C17: for a non-empty DSN, ParseDSN returns the "DSN is invalid" error   *)
(* exactly when no space-separated token has exactly one "="; a DSN with   *)
(* n >= 1 key=value tokens, n = 128 and n = 256 included, is not refused   *)
(* as invalid.                                                             *)
C17_InvalidIffNoKeyValue ==
    (pg.pc = "done" /\ pg.dsn # "") =>
        (pg.err = "DSN is invalid" <=> ~HasKeyValue(pg.src))

---------------------------------------------------------------------------
(* gormDB, the wrapper of *gorm.DB                                         *)
(*                                                                         *)
(* The ORM handle is what the wrapper's methods can change in it: the      *)
(* conditions of the statement (conds, each a query text with its bound    *)
(* arguments), the omitted columns (omits), and the operations the handle  *)
(* has received (ops).  gdb holds the wrapper, the calls made on it, and   *)
(* the wrapper as it was before the last call (prev).                      *)

\* The number of method calls made on one wrapper.
MaxGormCalls == 3

\* (*gorm.DB).Where(query, args...): one more condition.
DBWhere(db, query, args) ==
    [db EXCEPT !.conds = Append(@, [query |-> query, args |-> args]),
               !.ops = Append(@, "Where")]

\* (*gorm.DB).Omit(columns...): the omitted columns become columns.
DBOmit(db, columns) ==
    [db EXCEPT !.omits = columns, !.ops = Append(@, "Omit")]

NewDB == [conds |-> <<>>, omits |-> <<>>, ops |-> <<>>]

WrapDB(db) == [db |-> db]

\* Mutant: the last branch tests start again, so it is never taken.
DateRangeDeadBranch(g, column, start, end) ==
    IF start # "" /\ end # ""
    THEN [g EXCEPT !.db = DBWhere(@, column \o " BETWEEN ? AND ?", <<start, end>>)]
    ELSE IF start # ""
    THEN [g EXCEPT !.db = DBWhere(@, column \o " >= ?", <<start>>)]
    ELSE g

DateRange(g, column, start, end) ==
    IF start # "" /\ end # ""
    THEN [g EXCEPT !.db = DBWhere(@, column \o " BETWEEN ? AND ?", <<start, end>>)]
    ELSE IF start # ""
    THEN [g EXCEPT !.db = DBWhere(@, column \o " >= ?", <<start>>)]
    ELSE IF end # ""
    THEN [g EXCEPT !.db = DBWhere(@, column \o " <= ?", <<end>>)]
    ELSE g

MonthRange(g, column, start, end) ==
    IF start # "" /\ end # ""
    THEN [g EXCEPT !.db = DBWhere(@,
            column \o " BETWEEN DATE_TRUNC('month', ?::DATE) AND DATE_TRUNC('month', ?::DATE)",
            <<start, end>>)]
    ELSE IF start # ""
    THEN [g EXCEPT !.db = DBWhere(@,
            column \o " >= DATE_TRUNC('month', ?::DATE)", <<start>>)]
    ELSE IF end # ""
    THEN [g EXCEPT !.db = DBWhere(@,
            column \o " <= DATE_TRUNC('month', ?::DATE)", <<end>>)]
    ELSE g

YearRange(g, column, start, end) ==
    IF start # "" /\ end # ""
    THEN [g EXCEPT !.db = DBWhere(@,
            column \o " BETWEEN DATE_TRUNC('year', ?::DATE) AND DATE_TRUNC('year', ?::DATE)",
            <<start, end>>)]
    ELSE IF start # ""
    THEN [g EXCEPT !.db = DBWhere(@,
            column \o " >= DATE_TRUNC('year', ?::DATE)", <<start>>)]
    ELSE IF end # ""
    THEN [g EXCEPT !.db = DBWhere(@,
            column \o " <= DATE_TRUNC('year', ?::DATE)", <<end>>)]
    ELSE g

Omit(g, columns) == [g EXCEPT !.db = DBOmit(@, columns)]

RangeColumns == {"DATE(created_at)"}
RangeStarts == {"", "2021-01-01"}
RangeEnds == {"", "2021-12-31"}
OmitColumns == {<<>>, <<"password">>, <<"created_at", "updated_at">>}

RangeCall(op, column, start, end) ==
    [op |-> op, column |-> column, start |-> start, end |-> end,
     columns |-> <<>>]
OmitCall(columns) ==
    [op |-> "Omit", column |-> "", start |-> "", end |-> "",
     columns |-> columns]

GormInit ==
    /\ gdb = [wrapper |-> WrapDB(NewDB), prev |-> WrapDB(NewDB), calls |-> <<>>]
    /\ baseQuery = NotInUse /\ qb = NotInUse /\ calls = NotInUse
    /\ ret = NotInUse /\ retNil = NotInUse /\ pg = NotInUse
    /\ pager = NotInUse

\* The wrapper after a call, with the call added to the history.
GormStep(after, call) ==
    /\ Len(gdb.calls) < MaxGormCalls
    /\ gdb' = [wrapper |-> after, prev |-> gdb.wrapper,
               calls |-> Append(gdb.calls, call)]
    /\ UNCHANGED <<baseQuery, qb, calls, ret, retNil, pg, pager>>

DoDateRange ==
    \E column \in RangeColumns, start \in RangeStarts, end \in RangeEnds :
        GormStep(DateRange(gdb.wrapper, column, start, end),
                 RangeCall("DateRange", column, start, end))

DoMonthRange ==
    \E column \in RangeColumns, start \in RangeStarts, end \in RangeEnds :
        GormStep(MonthRange(gdb.wrapper, column, start, end),
                 RangeCall("MonthRange", column, start, end))

DoYearRange ==
    \E column \in RangeColumns, start \in RangeStarts, end \in RangeEnds :
        GormStep(YearRange(gdb.wrapper, column, start, end),
                 RangeCall("YearRange", column, start, end))

DoOmit ==
    \E columns \in OmitColumns :
        GormStep(Omit(gdb.wrapper, columns), OmitCall(columns))

GormNext == DoDateRange \/ DoMonthRange \/ DoYearRange \/ DoOmit

GormSpec == GormInit /\ [][GormNext]_vars

LastGormCall == gdb.calls[Len(gdb.calls)]

---------------------------------------------------------------------------
(* C16: Omit with an empty column list does nothing: the wrapped handle is *)
(* after the call what it was before it, and it has received no operation. *)
C16_EmptyOmitDoesNothing ==
    (gdb.calls # <<>> /\ LastGormCall.op = "Omit" /\ LastGormCall.columns = <<>>)
        => /\ gdb.wrapper.db.ops = gdb.prev.db.ops
           /\ gdb.wrapper.db = gdb.prev.db

---------------------------------------------------------------------------
(* C18: DateRange, MonthRange and YearRange add one condition when start   *)
(* or end is not empty: BETWEEN bound to start then end when both are not  *)
(* empty, ">=" bound to start when only start is not, "<=" bound to end    *)
(* when only end is not; they add none when both are empty.  The           *)
(* conditions of successive calls are in the handle in call order.         *)

IsRangeCall(c) == c.op \in {"DateRange", "MonthRange", "YearRange"}

AddsCondition(c) == IsRangeCall(c) /\ (c.start # "" \/ c.end # "")

\* The condition call c adds: its comparison and its bound arguments.
ConditionOf(c, cond) ==
    /\ IsPrefix(c.column, cond.query)
    /\ IF c.start # "" /\ c.end # ""
       THEN /\ Occurrences(cond.query, " BETWEEN ") = 1
            /\ Occurrences(cond.query, "?") = 2
            /\ cond.args = <<c.start, c.end>>
       ELSE IF c.start # ""
       THEN /\ Occurrences(cond.query, " >= ") = 1
            /\ Occurrences(cond.query, " BETWEEN ") = 0
            /\ Occurrences(cond.query, "?") = 1
            /\ cond.args = <<c.start>>
       ELSE /\ Occurrences(cond.query, " <= ") = 1
            /\ Occurrences(cond.query, " BETWEEN ") = 0
            /\ Occurrences(cond.query, "?") = 1
            /\ cond.args = <<c.end>>

C18_RangeConditions ==
    LET adding == SelectSeq(gdb.calls, AddsCondition)
        conds  == gdb.wrapper.db.conds
    IN  /\ Len(conds) = Len(adding)
        /\ \A i \in 1..Len(adding) : ConditionOf(adding[i], conds[i])
        /\ (gdb.calls # <<>> /\ IsRangeCall(LastGormCall)) =>
              IF AddsCondition(LastGormCall)
              THEN /\ Len(conds) = Len(gdb.prev.db.conds) + 1
                   /\ IsPrefix(gdb.prev.db.conds, conds)
              ELSE gdb.wrapper = gdb.prev

\* DateRange with only an end, MonthRange with neither and YearRange with
\* both were called, in this order: two conditions, "<=" then BETWEEN.
C18_Witness ==
    /\ Len(gdb.calls) = 3
    /\ gdb.calls[1] = RangeCall("DateRange", "DATE(created_at)", "", "2021-12-31")
    /\ gdb.calls[2] = RangeCall("MonthRange", "DATE(created_at)", "", "")
    /\ gdb.calls[3] = RangeCall("YearRange", "DATE(created_at)", "2021-01-01", "2021-12-31")
    /\ Len(gdb.wrapper.db.conds) = 2
    /\ gdb.wrapper.db.conds[1].query = "DATE(created_at) <= ?"
    /\ gdb.wrapper.db.conds[2].args = <<"2021-01-01", "2021-12-31">>

---------------------------------------------------------------------------
(* Integers of GetPaginated                                                *)
(*                                                                         *)
(* page and pageSize are Go ints (32 or 64 bits wide, by the build),       *)
(* totalCount is an int64 and TotalPages goes through float64.  A natural  *)
(* number is the sequence of its bytes, lowest first, without a highest    *)
(* zero byte; an integer is a sign and a natural number.                   *)

\* The values of one byte.
Base == 256

\* The bits of a float64's significand, of an int64, and of a byte.
Float64Precision == 53
Int64Bits == 64
ByteBits == 8

\* The widths of int a build can have.
IntWidths == {32, 64}

RECURSIVE Trim(_)
Trim(a) ==
    IF a # <<>> /\ a[Len(a)] = 0 THEN Trim(SubSeq(a, 1, Len(a) - 1)) ELSE a

RECURSIVE NatOf(_)
NatOf(n) == IF n = 0 THEN <<>> ELSE <<n % Base>> \o NatOf(n \div Base)

Limb(a, i) == IF i <= Len(a) THEN a[i] ELSE 0

RECURSIVE AddFrom(_, _, _, _)
AddFrom(a, b, i, carry) ==
    IF i > Len(a) /\ i > Len(b)
    THEN IF carry = 0 THEN <<>> ELSE <<carry>>
    ELSE <<(Limb(a, i) + Limb(b, i) + carry) % Base>>
            \o AddFrom(a, b, i + 1, (Limb(a, i) + Limb(b, i) + carry) \div Base)

NatAdd(a, b) == AddFrom(a, b, 1, 0)

\* a - b for a >= b.
RECURSIVE SubFrom(_, _, _, _)
SubFrom(a, b, i, borrow) ==
    IF i > Len(a)
    THEN <<>>
    ELSE <<(Limb(a, i) - Limb(b, i) - borrow + Base) % Base>>
            \o SubFrom(a, b, i + 1,
                       IF Limb(a, i) - Limb(b, i) - borrow < 0 THEN 1 ELSE 0)

NatSub(a, b) == Trim(SubFrom(a, b, 1, 0))

RECURSIVE LessAt(_, _, _)
LessAt(a, b, i) ==
    IF i = 0 THEN FALSE
    ELSE IF a[i] # b[i] THEN a[i] < b[i]
    ELSE LessAt(a, b, i - 1)

NatLess(a, b) ==
    IF Len(a) # Len(b) THEN Len(a) < Len(b) ELSE LessAt(a, b, Len(a))

\* a * m for a small number m.
RECURSIVE MulSmallFrom(_, _, _, _)
MulSmallFrom(a, m, i, carry) ==
    IF i > Len(a)
    THEN NatOf(carry)
    ELSE <<(a[i] * m + carry) % Base>>
            \o MulSmallFrom(a, m, i + 1, (a[i] * m + carry) \div Base)

NatMulSmall(a, m) == Trim(MulSmallFrom(a, m, 1, 0))

ShiftLimbs(a, k) == IF a = <<>> THEN <<>> ELSE [i \in 1..k |-> 0] \o a

RECURSIVE MulFrom(_, _, _)
MulFrom(a, b, j) ==
    IF j > Len(b)
    THEN <<>>
    ELSE NatAdd(ShiftLimbs(NatMulSmall(a, b[j]), j - 1), MulFrom(a, b, j + 1))

NatMul(a, b) == MulFrom(a, b, 1)

Reverse(s) == [i \in 1..Len(s) |-> s[Len(s) + 1 - i]]

\* The quotient of the bytes i, i-1 .. 1 of a by a small number m, highest
\* byte first, rem being what the higher bytes left over.
RECURSIVE DivSmallFrom(_, _, _, _)
DivSmallFrom(a, m, i, rem) ==
    IF i = 0
    THEN <<>>
    ELSE <<(rem * Base + a[i]) \div m>>
            \o DivSmallFrom(a, m, i - 1, (rem * Base + a[i]) % m)

NatDivSmall(a, m) == Trim(Reverse(DivSmallFrom(a, m, Len(a), 0)))

RECURSIVE SmallBitLen(_)
SmallBitLen(n) == IF n = 0 THEN 0 ELSE 1 + SmallBitLen(n \div 2)

\* The number of bits of a: 0 for 0, k + 1 for 2^k <= a < 2^(k+1).
BitLen(a) ==
    IF a = <<>> THEN 0
    ELSE ByteBits * (Len(a) - 1) + SmallBitLen(a[Len(a)])

\* a * 2^k, a \div 2^k, a % 2^k and 2^k.
NatShiftL(a, k) == ShiftLimbs(NatMulSmall(a, 2 ^ (k % ByteBits)), k \div ByteBits)

NatShiftR(a, k) ==
    NatDivSmall(SubSeq(a, k \div ByteBits + 1, Len(a)), 2 ^ (k % ByteBits))

NatLowBits(a, k) ==
    Trim(SubSeq(a, 1, IF k \div ByteBits < Len(a) THEN k \div ByteBits ELSE Len(a))
            \o <<Limb(a, k \div ByteBits + 1) % (2 ^ (k % ByteBits))>>)

Pow2(k) == NatShiftL(<<1>>, k)

NatOdd(a) == Limb(a, 1) % 2 = 1

\* The highest d in lo..hi with b * d <= a, given b * lo <= a < b * (hi + 1).
RECURSIVE QuotientDigit(_, _, _, _)
QuotientDigit(a, b, lo, hi) ==
    IF lo = hi THEN lo
    ELSE IF NatLess(a, NatMulSmall(b, (lo + hi + 1) \div 2))
    THEN QuotientDigit(a, b, lo, (lo + hi + 1) \div 2 - 1)
    ELSE QuotientDigit(a, b, (lo + hi + 1) \div 2, hi)

\* Long division of the bytes i, i-1 .. 1 of a by b, rem being what the
\* higher bytes left over: the quotient, highest byte first, and the
\* remainder.
RECURSIVE DivModFrom(_, _, _, _)
DivModFrom(a, b, i, rem) ==
    IF i = 0
    THEN [q |-> <<>>, r |-> rem]
    ELSE LET cur  == Trim(<<a[i]>> \o rem)
             d    == QuotientDigit(cur, b, 0, Base - 1)
             rest == DivModFrom(a, b, i - 1, NatSub(cur, NatMulSmall(b, d)))
         IN  [q |-> <<d>> \o rest.q, r |-> rest.r]

\* The quotient and the remainder of a by b, b > 0.
NatDivMod(a, b) ==
    [q |-> Trim(Reverse(DivModFrom(a, b, Len(a), <<>>).q)),
     r |-> DivModFrom(a, b, Len(a), <<>>).r]

IntOf(n) == [neg |-> n < 0, mag |-> NatOf(IF n < 0 THEN -n ELSE n)]

MkInt(neg, mag) == [neg |-> neg /\ mag # <<>>, mag |-> mag]

IntNeg(x) == MkInt(~x.neg, x.mag)

IntAdd(x, y) ==
    IF x.neg = y.neg THEN MkInt(x.neg, NatAdd(x.mag, y.mag))
    ELSE IF NatLess(x.mag, y.mag) THEN MkInt(y.neg, NatSub(y.mag, x.mag))
    ELSE MkInt(x.neg, NatSub(x.mag, y.mag))

IntSub(x, y) == IntAdd(x, IntNeg(y))

IntMul(x, y) == MkInt(x.neg # y.neg, NatMul(x.mag, y.mag))

IntLess(x, y) ==
    IF x.neg # y.neg THEN x.neg
    ELSE IF x.neg THEN NatLess(y.mag, x.mag)
    ELSE NatLess(x.mag, y.mag)

MaxInt(w) == MkInt(FALSE, NatSub(Pow2(w - 1), <<1>>))
MinInt(w) == MkInt(TRUE, Pow2(w - 1))

\* x as a two's complement integer of w bits: what arithmetic on ints and
\* int64s keeps of a result.
WrapBits(x, w) ==
    IF x.neg /\ NatLowBits(x.mag, w) # <<>>
    THEN NatSub(Pow2(w), NatLowBits(x.mag, w))
    ELSE NatLowBits(x.mag, w)

Wrap(x, w) ==
    IF NatLess(WrapBits(x, w), Pow2(w - 1))
    THEN MkInt(FALSE, WrapBits(x, w))
    ELSE MkInt(TRUE, NatSub(Pow2(w), WrapBits(x, w)))

\* A float64 with the value mant * 2^exp (negated when neg), or an
\* infinity, or a NaN.
Finite(neg, mant, exp) ==
    [kind |-> "finite", neg |-> neg, mant |-> mant, exp |-> exp]
Infinity(neg) == [kind |-> "inf", neg |-> neg, mant |-> <<>>, exp |-> 0]
NaN == [kind |-> "nan", neg |-> FALSE, mant |-> <<>>, exp |-> 0]

\* a / 2^s (s > 0) rounded to the nearest integer, ties to even; sticky
\* says that a stands for a value a little above a.
RoundHalfEven(a, s, sticky) ==
    IF \/ NatLess(Pow2(s - 1), NatLowBits(a, s))
       \/ /\ NatLowBits(a, s) = Pow2(s - 1)
          /\ sticky \/ NatOdd(NatShiftR(a, s))
    THEN NatAdd(NatShiftR(a, s), <<1>>)
    ELSE NatShiftR(a, s)

\* float64(x) for an integer x: the nearest float64.
Float64(x) ==
    IF BitLen(x.mag) <= Float64Precision
    THEN Finite(x.neg, x.mag, 0)
    ELSE Finite(x.neg,
                RoundHalfEven(x.mag, BitLen(x.mag) - Float64Precision, FALSE),
                BitLen(x.mag) - Float64Precision)

\* The quotient of x.mant * 2^k by y.mant, rounded to Float64Precision bits.
RoundedQuotient(x, y, k, dm) ==
    Finite(x.neg # y.neg,
           RoundHalfEven(dm.q, BitLen(dm.q) - Float64Precision, dm.r # <<>>),
           x.exp - y.exp - k + BitLen(dm.q) - Float64Precision)

\* x / y for finite float64s: the float64 nearest to the quotient; a
\* division by zero gives an infinity, and 0 / 0 a NaN.
FloatDiv(x, y) ==
    IF y.mant = <<>>
    THEN IF x.mant = <<>> THEN NaN ELSE Infinity(x.neg # y.neg)
    ELSE IF x.mant = <<>>
    THEN Finite(x.neg # y.neg, <<>>, 0)
    ELSE RoundedQuotient(x, y, Float64Precision + 2 + BitLen(y.mant),
            NatDivMod(NatShiftL(x.mant, Float64Precision + 2 + BitLen(y.mant)),
                      y.mant))

\* math.Ceil: the least integral float64 not below f.
FloatCeil(f) ==
    IF f.kind # "finite" \/ f.exp >= 0
    THEN f
    ELSE IF f.neg \/ NatLowBits(f.mant, -f.exp) = <<>>
    THEN Finite(f.neg, NatShiftR(f.mant, -f.exp), 0)
    ELSE Finite(f.neg, NatAdd(NatShiftR(f.mant, -f.exp), <<1>>), 0)

\* The integer a finite float64 is truncated to.
Truncated(f) ==
    IF f.exp >= 0
    THEN MkInt(f.neg, NatShiftL(f.mant, f.exp))
    ELSE MkInt(f.neg, NatShiftR(f.mant, -f.exp))

FitsInt64(x) == ~IntLess(x, MinInt(Int64Bits)) /\ ~IntLess(MaxInt(Int64Bits), x)

\* int64(f): what the conversion can give.  A value an int64 cannot hold
\* is converted to what the implementation chooses.
Int64OfFloat(f) ==
    IF f.kind = "finite" /\ FitsInt64(Truncated(f))
    THEN {Truncated(f)}
    ELSE {MinInt(Int64Bits), MaxInt(Int64Bits), IntOf(0)}

---------------------------------------------------------------------------
(* GetPaginated                                                            *)
(*                                                                         *)
(* pager holds one call: the build's width of int, the arguments page and  *)
(* pageSize, what the database answers (totalCount, or an error of Count   *)
(* or of Find), and, once the call has returned, the offset and limit      *)
(* given to Find, the response and whether an error was returned.  The     *)
(* rows of Results play no part and are left out.                          *)

Pages(w) ==
    {IntOf(-1), IntOf(0), IntOf(1), IntOf(2), IntOf(3),
     MkInt(FALSE, Pow2(w \div 2)), MaxInt(w)}

PageSizes(w) ==
    {IntOf(-1), IntOf(0), IntOf(1), IntOf(2), IntOf(10),
     MkInt(FALSE, Pow2(w \div 2))}

TotalCounts ==
    {IntOf(0), IntOf(1), IntOf(10), IntOf(11), IntOf(25),
     MkInt(FALSE, NatAdd(Pow2(Float64Precision), <<1>>))}

NoResponse ==
    [Page |-> IntOf(0), PageSize |-> IntOf(0), TotalPages |-> IntOf(0),
     Count |-> IntOf(0), HasNext |-> FALSE, HasPrev |-> FALSE]

PageCall(w, page, pageSize, totalCount, countErr, findErr) ==
    [pc |-> "called", intBits |-> w, page |-> page, pageSize |-> pageSize,
     totalCount |-> totalCount, countErr |-> countErr, findErr |-> findErr,
     findCalled |-> FALSE, offset |-> IntOf(0), limit |-> IntOf(0),
     isNil |-> TRUE, resp |-> NoResponse, err |-> FALSE]

\* The page after "if page < 1 { page = 1 }".
ClampedPage(page) == IF IntLess(page, IntOf(1)) THEN IntOf(1) ELSE page

\* offset := (page - 1) * pageSize, in ints of w bits.
Offset(page, pageSize, w) ==
    Wrap(IntMul(Wrap(IntSub(page, IntOf(1)), w), pageSize), w)

\* int64(page*pageSize) < totalCount
HasNext(page, pageSize, totalCount, w) ==
    IntLess(Wrap(Wrap(IntMul(page, pageSize), w), Int64Bits), totalCount)

\* int64(math.Ceil(float64(totalCount) / float64(pageSize))): the values
\* the conversion can give.
TotalPages(totalCount, pageSize) ==
    Int64OfFloat(FloatCeil(FloatDiv(Float64(totalCount), Float64(pageSize))))

\* The call p once it has returned; totalPages is what the conversion to
\* int64 gave.
GetPaginated(p, totalPages) ==
    IF p.countErr
    THEN [p EXCEPT !.pc = "returned", !.err = TRUE]
    ELSE IF p.findErr
    THEN [p EXCEPT !.pc = "returned", !.err = TRUE, !.findCalled = TRUE,
                   !.offset = Offset(ClampedPage(p.page), p.pageSize, p.intBits),
                   !.limit = p.pageSize]
    ELSE [p EXCEPT !.pc = "returned", !.findCalled = TRUE,
                   !.offset = Offset(ClampedPage(p.page), p.pageSize, p.intBits),
                   !.limit = p.pageSize,
                   !.isNil = FALSE,
                   !.resp = [Page |-> ClampedPage(p.page),
                             PageSize |-> p.pageSize,
                             HasNext |-> HasNext(ClampedPage(p.page), p.pageSize,
                                                 p.totalCount, p.intBits),
                             HasPrev |-> IntLess(IntOf(1), ClampedPage(p.page)),
                             Count |-> p.totalCount,
                             TotalPages |-> totalPages]]

PageInit ==
    /\ \E w \in IntWidths :
         \E page \in Pages(w), pageSize \in PageSizes(w),
            totalCount \in TotalCounts, countErr, findErr \in BOOLEAN :
              /\ countErr => ~findErr
              /\ pager = PageCall(w, page, pageSize, totalCount, countErr, findErr)
    /\ baseQuery = NotInUse /\ qb = NotInUse /\ calls = NotInUse
    /\ ret = NotInUse /\ retNil = NotInUse /\ pg = NotInUse
    /\ gdb = NotInUse

DoGetPaginated ==
    /\ pager.pc = "called"
    /\ \E totalPages \in TotalPages(pager.totalCount, pager.pageSize) :
          pager' = GetPaginated(pager, totalPages)
    /\ UNCHANGED <<baseQuery, qb, calls, ret, retNil, pg, gdb>>

PageNext == DoGetPaginated

PageSpec == PageInit /\ [][PageNext]_vars

---------------------------------------------------------------------------
(* C15: a page below 1 is treated as page 1: the offset given to Find is   *)
(* 0, the response has Page = 1 and HasPrev is false.  For page >= 1 the   *)
(* offset is (page-1)*pageSize, HasPrev is page > 1 and HasNext is         *)
(* page*pageSize < total count.                                            *)
C15_PagingArithmetic ==
    (pager.pc = "returned" /\ pager.findCalled) =>
        IF IntLess(pager.page, IntOf(1))
        THEN /\ pager.offset = IntOf(0)
             /\ ~pager.isNil =>
                   /\ pager.resp.Page = IntOf(1)
                   /\ ~pager.resp.HasPrev
        ELSE /\ pager.offset =
                   IntMul(IntSub(pager.page, IntOf(1)), pager.pageSize)
             /\ ~pager.isNil =>
                   /\ pager.resp.HasPrev = IntLess(IntOf(1), pager.page)
                   /\ pager.resp.HasNext =
                         IntLess(IntMul(pager.page, pager.pageSize),
                                 pager.totalCount)

---------------------------------------------------------------------------
(* C19: in a response with PageSize >= 1 and Count >= 0, TotalPages is     *)
(* the integer ceiling of Count / PageSize and HasNext is true exactly     *)
(* when Page < TotalPages.                                                 *)

\* The least integer not below a / b, for a >= 0 and b >= 1.
CeilDiv(a, b) ==
    IF NatDivMod(a.mag, b.mag).r = <<>>
    THEN MkInt(FALSE, NatDivMod(a.mag, b.mag).q)
    ELSE MkInt(FALSE, NatAdd(NatDivMod(a.mag, b.mag).q, <<1>>))

C19_TotalPagesAndHasNext ==
    (/\ pager.pc = "returned" /\ ~pager.isNil
     /\ IntLess(IntOf(0), pager.resp.PageSize)
     /\ ~pager.resp.Count.neg) =>
        /\ pager.resp.TotalPages = CeilDiv(pager.resp.Count, pager.resp.PageSize)
        /\ pager.resp.HasNext = IntLess(pager.resp.Page, pager.resp.TotalPages)

=============================================================================
